---- MODULE Spec2Model ----
(***************************************************************************)
(* Model of load-tests/python-load-test.py: LoadTestRunner (three endpoint *)
(* operations, run_scenario with its semaphore-bounded work units, the     *)
(* lazily created shared session, _print_results) and main, which runs the *)
(* scenarios in sequence and closes the session in a finally block.        *)
(*                                                                         *)
(* Granularity: the program runs on one asyncio event loop, so a step of   *)
(* the model is the code a coroutine runs between two suspension points.   *)
(* The suspension points are: waiting for the semaphore, the transport     *)
(* call (session.get / session.post), gather, and session.close().         *)
(* Work units are otherwise free to interleave in any order.               *)
(*                                                                         *)
(* Environment: a transport call answers with an HTTP status or raises; a  *)
(* ClientSession(...) construction succeeds or raises; clock differences   *)
(* are positive.  The tenant, the product id and the payload of a request  *)
(* reach the service only and are not part of the state.                   *)
(*                                                                         *)
(* Numbers: response times and elapsed time are positive integers (ticks); *)
(* the floats the reporter computes are modelled as exact fractions        *)
(* [num, den] in lowest terms.  The random draw of line 158 is modelled in *)
(* tenths (0..9 for [0,1)).                                                *)
(*                                                                         *)
(* Four specifications share the actions: Spec runs scenarios of up to     *)
(* MaxRequests requests against every kind of transport outcome, with one  *)
(* draw of each band; SpecLong runs scenarios of up to MaxRequestsLong     *)
(* requests against a transport that answers 200 or times out; SpecShort   *)
(* runs the short scenarios against that transport with every tenth as     *)
(* draw; SpecFair adds to the short scenarios the fairness the event loop   *)
(* and the request timeout give.  SpecReport applies _print_results to     *)
(* collections of up to MaxSamples outcomes, outside any scenario.         *)
(***************************************************************************)
EXTENDS Integers, Sequences, FiniteSets, TLC

(* ---------------------------- bounds ----------------------------------- *)
\* Spec: run_scenario is called with num_requests in 1..MaxRequests and
\* concurrency in 1..MaxConcurrency
MaxRequests == 2
MaxConcurrency == 2
\* SpecLong: num_requests in 1..MaxRequestsLong
MaxRequestsLong == 3
\* SpecReport: _print_results is handed collections of 1..MaxSamples outcomes
MaxSamples == 4

(* ------------------------ program constants ---------------------------- *)
\* main runs four scenarios
NumScenarios == 4
EP_LIST == "GET /api/products"
EP_GET == "GET /api/products/{id}"
EP_CREATE == "POST /api/products"
Endpoints == {EP_LIST, EP_GET, EP_CREATE}

\* HTTP statuses the service may answer with; a real status is never 0
Statuses == {200, 201, 404}
\* what the transport raises: connection error, timeout, protocol error;
\* each of these classes derives from Exception
Exceptions == {"ClientConnectorError", "TimeoutError", "ClientPayloadError"}
\* what the transport call does: answers with a status, or raises
TransportOutcomes ==
  [raised : {FALSE}, status : Statuses, exc : {""}]
    \cup [raised : {TRUE}, status : {0}, exc : Exceptions]
LongOutcomes ==
  {[raised |-> FALSE, status |-> 200, exc |-> ""],
   [raised |-> TRUE, status |-> 0, exc |-> "TimeoutError"]}
\* (time.time() - start_time) * 1000 of an operation, in ticks
Latencies == {1, 2}
\* time.time() - start_time of a scenario, in ticks: the clock has advanced
\* when every work unit has been through a transport call
ElapsedTimes == {1, 2}
\* random.random() in tenths
Draws == 0..9
\* one draw of each band of lines 160-169: 0.0, and the boundary values 0.5
\* and 0.8
BandDraws == {0, 5, 8}

VARIABLES
  mainpc,        \* where main is
  scen,          \* number of the scenario started last (0: none yet)
  num_requests,  \* arguments of the running run_scenario
  concurrency,
  semaphore,     \* value of the scenario's asyncio.Semaphore
  tasks,         \* the scenario's work units (bounded_request coroutines)
  results,       \* self.results
  session,       \* self._session: 0 = attribute absent, else index in sessions
  sessions,      \* every ClientSession constructed: "open" or "closed"
  closeCalls,    \* number of ClientSession.close() calls made so far
  printed,       \* the block written to stdout last
  reports,       \* number of statistics reports printed so far
  failed         \* an exception is propagating out of main's try block

vars == <<mainpc, scen, num_requests, concurrency, semaphore, tasks, results,
          session, sessions, closeCalls, printed, reports, failed>>

(* ------------------------- TestResult ---------------------------------- *)
TestResult(endpoint, status_code, response_time_ms, success) ==
  [endpoint |-> endpoint, status_code |-> status_code,
   response_time_ms |-> response_time_ms, success |-> success]

(* ---------------------- endpoint operations ---------------------------- *)
\* Catches as "except aiohttp.ClientError" would be: a timeout gets through
CatchesClientError(exc) == exc \in {"ClientConnectorError", "ClientPayloadError"}
\* "except Exception" of lines 54, 85 and 127
Catches(exc) == exc \in Exceptions

\* what an operation does for its caller: returns a TestResult, or lets the
\* exception exc through
Returns(r) == [raises |-> FALSE, value |-> r, exc |-> ""]
Propagates(exc) == [raises |-> TRUE, value |-> TestResult("", 0, 0, FALSE), exc |-> exc]

\* each operation, given what its transport call does (out) and the time
\* measured around it (t)
get_all_products(out, t) ==
  IF ~out.raised
    THEN Returns(TestResult(EP_LIST, out.status, t, out.status = 200))
  ELSE IF Catches(out.exc)
    THEN Returns(TestResult(EP_LIST, 0, t, FALSE))
  ELSE Propagates(out.exc)

get_product_by_id(out, t) ==
  IF ~out.raised
    THEN Returns(TestResult(EP_GET, out.status, t, out.status = 200))
  ELSE IF Catches(out.exc)
    THEN Returns(TestResult(EP_GET, 0, t, FALSE))
  ELSE Propagates(out.exc)

\* create_product with the success test of the two GET operations
create_productExpects200(out, t) ==
  IF ~out.raised
    THEN Returns(TestResult(EP_CREATE, out.status, t, out.status = 200))
  ELSE IF Catches(out.exc)
    THEN Returns(TestResult(EP_CREATE, 0, t, FALSE))
  ELSE Propagates(out.exc)

create_product(out, t) ==
  IF ~out.raised
    THEN Returns(TestResult(EP_CREATE, out.status, t, out.status = 201))
  ELSE IF Catches(out.exc)
    THEN Returns(TestResult(EP_CREATE, 0, t, FALSE))
  ELSE Propagates(out.exc)

\* SelectOperation with the boundary values in the lower band
SelectOperationInclusive(v) ==
  IF v <= 5 THEN EP_LIST
  ELSE IF v <= 8 THEN EP_GET
  ELSE EP_CREATE
\* the branch of lines 160-169 taken for the draw v (tenths)
SelectOperation(v) ==
  IF v < 5 THEN EP_LIST
  ELSE IF v < 8 THEN EP_GET
  ELSE EP_CREATE

\* the operation awaited by the work unit that chose endpoint e
Invoke(e, out, t) ==
  IF e = EP_LIST THEN get_all_products(out, t)
  ELSE IF e = EP_GET THEN get_product_by_id(out, t)
  ELSE create_product(out, t)

\* history fields kept with a collected TestResult: the scenario whose work
\* unit built it, and what its transport call did
Collected(r, k, out) ==
  r @@ [scen |-> k, transport |-> [raised |-> out.raised, status |-> out.status]]

(* ------------------------- arithmetic ---------------------------------- *)
RECURSIVE GCD(_, _)
GCD(a, b) == IF b = 0 THEN a ELSE GCD(b, a % b)

\* a float as an exact fraction in lowest terms; den = 0 marks the exception
\* Python raises instead of producing a value (ZeroDivisionError,
\* StatisticsError, ValueError)
Raises == [num |-> 0, den |-> 0]
Frac(n, d) ==
  IF d = 0 THEN Raises
  ELSE LET g == GCD(n, d) IN [num |-> n \div g, den |-> d \div g]
Zero == Frac(0, 1)

RECURSIVE SumSeq(_)
SumSeq(s) == IF s = <<>> THEN 0 ELSE Head(s) + SumSeq(Tail(s))

(* ------------------------- statistics ---------------------------------- *)
\* statistics.mean: raises StatisticsError on empty data
mean(data) == IF Len(data) = 0 THEN Raises ELSE Frac(SumSeq(data), Len(data))

\* quantile without interpolation: the lower of the two neighbours
quantileLower(data, n, i) ==
  IF Len(data) < 2 THEN Raises
  ELSE LET sorted == SortSeq(data, LAMBDA a, b : a < b)
           ld == Len(sorted)
           j0 == (i * (ld + 1)) \div n
           j == IF j0 < 1 THEN 1 ELSE IF j0 > ld - 1 THEN ld - 1 ELSE j0
       IN  Frac(sorted[j], 1)
\* statistics.quantiles(data, n=n)[i-1], method 'exclusive': raises
\* StatisticsError with fewer than two data points
quantile(data, n, i) ==
  IF Len(data) < 2 THEN Raises
  ELSE LET sorted == SortSeq(data, LAMBDA a, b : a < b)
           ld == Len(sorted)
           m == ld + 1
           j0 == (i * m) \div n
           j == IF j0 < 1 THEN 1 ELSE IF j0 > ld - 1 THEN ld - 1 ELSE j0
           delta == i * m - j * n
       IN  Frac(sorted[j] * (n - delta) + sorted[j + 1] * delta, n)

RECURSIVE MinSeq(_)
MinSeq(s) ==
  IF Len(s) = 1 THEN Head(s)
  ELSE LET r == MinSeq(Tail(s)) IN IF Head(s) < r THEN Head(s) ELSE r
RECURSIVE MaxSeq(_)
MaxSeq(s) ==
  IF Len(s) = 1 THEN Head(s)
  ELSE LET r == MaxSeq(Tail(s)) IN IF Head(s) > r THEN Head(s) ELSE r
\* min() / max(): ValueError on an empty sequence
py_min(data) == IF Len(data) = 0 THEN Raises ELSE Frac(MinSeq(data), 1)
py_max(data) == IF Len(data) = 0 THEN Raises ELSE Frac(MaxSeq(data), 1)

(* ----------------------- _print_results -------------------------------- *)
successful_results(rs) == SelectSeq(rs, LAMBDA r : r.success)
\* failed_results counting transport failures only
failed_resultsStatus0(rs) == SelectSeq(rs, LAMBDA r : r.status_code = 0)
failed_results(rs) == SelectSeq(rs, LAMBDA r : ~r.success)
response_times(rs) ==
  LET ok == successful_results(rs)
  IN  [i \in 1..Len(ok) |-> ok[i].response_time_ms]

success_rate(rs, n) == Frac(Len(successful_results(rs)) * 100, n)
req_per_sec(n, total_time) == Frac(n, total_time)
\* avg_response without the test for an empty list
avg_responseUnguarded(rt) == mean(rt)
avg_response(rt) == IF Len(rt) > 0 THEN mean(rt) ELSE Zero
\* p50_response with the threshold of avg_response
p50_responseFromOne(rt) == IF Len(rt) > 0 THEN quantile(rt, 2, 1) ELSE Zero
p50_response(rt) == IF Len(rt) >= 2 THEN quantile(rt, 2, 1) ELSE Zero
p95_response(rt) == IF Len(rt) >= 20 THEN quantile(rt, 20, 19) ELSE Zero
min_response(rt) == IF Len(rt) > 0 THEN py_min(rt) ELSE Zero
max_response(rt) == IF Len(rt) > 0 THEN py_max(rt) ELSE Zero

\* the per-endpoint breakdown of lines 228-233
endpoint_breakdown(rs) ==
  LET endpoints == {rs[i].endpoint : i \in 1..Len(rs)}
  IN  [e \in endpoints |->
        LET endpoint_results == SelectSeq(rs, LAMBDA r : r.endpoint = e)
            endpoint_success == SelectSeq(endpoint_results, LAMBDA r : r.success)
        IN  [ok |-> Len(endpoint_success), total |-> Len(endpoint_results),
             rate |-> Frac(Len(endpoint_success) * 100, Len(endpoint_results))]]

\* ResultsAfterPrint of a reporter that takes the failures out of the list
ResultsAfterPrintDropsFailed(rs) == SelectSeq(rs, LAMBDA r : r.success)
\* self.results after _print_results: every line of it reads the list or
\* builds a new one (comprehensions, sorted), none changes it
ResultsAfterPrint(rs) == rs

\* everything _print_results prints for the collection rs; the kind is
\* "traceback" when one of its expressions raises instead
print_results(k, rs, n, total_time) ==
  LET rt == response_times(rs)
      rep == [kind |-> "report", scen |-> k, num_requests |-> n,
              successful |-> Len(successful_results(rs)),
              failed |-> Len(failed_results(rs)),
              success_rate |-> success_rate(rs, n),
              req_per_sec |-> req_per_sec(n, total_time),
              avg |-> avg_response(rt), p50 |-> p50_response(rt),
              p95 |-> p95_response(rt), min |-> min_response(rt),
              max |-> max_response(rt), by_endpoint |-> endpoint_breakdown(rs)]
      bad == \/ \E f \in {"success_rate", "req_per_sec", "avg", "p50", "p95",
                          "min", "max"} : rep[f] = Raises
             \/ \E e \in DOMAIN rep.by_endpoint : rep.by_endpoint[e].rate = Raises
  IN  [rep EXCEPT !.kind = IF bad THEN "traceback" ELSE "report"]

(* --------------------------- session ----------------------------------- *)
\* NeedsNewSession of a runner that opens a session for every request
NeedsNewSessionAlways(s, all) == TRUE
\* the test of line 187: no _session attribute yet, or the session is closed
NeedsNewSession(s, all) == IF s = 0 THEN TRUE ELSE all[s] = "closed"

\* _get_session when ClientSession(...) succeeds: [session, sessions] after it
get_session(s, all) ==
  IF NeedsNewSession(s, all)
    THEN [session |-> Len(all) + 1, sessions |-> Append(all, "open")]
    ELSE [session |-> s, sessions |-> all]

\* close_session: the session is closed when the attribute exists
close_session(s, all) ==
  IF s # 0 THEN [all EXCEPT ![s] = "closed"] ELSE all

(* -------------------------- semaphore ---------------------------------- *)
\* CanAcquire of a limiter that never blocks
CanAcquireAlways(value) == TRUE
\* CanAcquire of a lock: a unit enters only when no other unit is inside
CanAcquireAlone(value) == value = concurrency
\* asyncio.Semaphore.acquire returns only while the value is positive
CanAcquire(value) == value > 0
Acquire(value) == value - 1
\* Release of a semaphore that does not give the slot back
ReleaseLeaks(value) == value
Release(value) == value + 1

(* --------------------------- work units -------------------------------- *)
\* a bounded_request coroutine as created by line 175, not yet started
\* raisedIn names the call whose exception ended the unit; draw is the
\* unit's random.random() (-1: none yet); heldAtAppend tells whether the
\* unit held its slot when it appended its outcome
NewTask ==
  [pc |-> "wait", endpoint |-> "", draw |-> -1, sess |-> 0, raisedIn |-> "",
   acquires |-> 0, releases |-> 0, appends |-> 0, heldAtAppend |-> FALSE]

Units == 1..Len(tasks)
InFlight == {i \in Units : tasks[i].pc = "inflight"}
\* unit i has not entered "async with semaphore" and a slot is free
Startable(i) == tasks[i].pc = "wait" /\ CanAcquire(semaphore)

\* AppendResult that keeps successful outcomes only
AppendResultIfSuccess(rs, r) == IF r.success THEN Append(rs, r) ELSE rs
\* self.results.append(result), line 171
AppendResult(rs, r) == Append(rs, r)
\* ClearResults of a runner that keeps the list
KeepResults(rs) == rs
\* self.results.clear(), line 148
ClearResults(rs) == <<>>

Init ==
  /\ mainpc = "idle"
  /\ scen = 0
  /\ num_requests = 0
  /\ concurrency = 0
  /\ semaphore = 0
  /\ tasks = <<>>
  /\ results = <<>>
  /\ session = 0
  /\ sessions = <<>>
  /\ closeCalls = 0
  /\ printed = [kind |-> "header"]
  /\ reports = 0
  /\ failed = FALSE

\* main calls run_scenario(name, n, c), which runs up to the await of
\* gather: banner, results.clear(), the semaphore, the n work units
RunScenario(n, c) ==
  /\ mainpc = "idle"
  /\ scen < NumScenarios
  /\ scen' = scen + 1
  /\ num_requests' = n
  /\ concurrency' = c
  /\ printed' = [kind |-> "banner", scen |-> scen + 1, num_requests |-> n,
                 concurrency |-> c]
  /\ results' = ClearResults(results)
  /\ semaphore' = c
  /\ tasks' = [i \in 1..n |-> NewTask]
  /\ mainpc' = "gather"
  /\ UNCHANGED <<session, sessions, closeCalls, reports, failed>>

\* work unit i enters "async with semaphore", draws its operation, gets the
\* session (constructing it when needed) and suspends in the transport call
StartRequest(i, v) ==
  /\ mainpc # "done"
  /\ tasks[i].pc = "wait"
  /\ CanAcquire(semaphore)
  /\ LET got == get_session(session, sessions)
     IN  /\ session' = got.session
         /\ sessions' = got.sessions
         /\ tasks' = [tasks EXCEPT ![i].pc = "inflight",
                                   ![i].draw = v,
                                   ![i].endpoint = SelectOperation(v),
                                   ![i].sess = got.session,
                                   ![i].acquires = @ + 1]
  /\ semaphore' = Acquire(semaphore)
  /\ UNCHANGED <<mainpc, scen, num_requests, concurrency, results, closeCalls,
                 printed, reports, failed>>

\* as StartRequest, but ClientSession(...) raises in _get_session: the
\* exception leaves bounded_request through "async with", which releases
StartRequestRaises(i) ==
  /\ mainpc # "done"
  /\ tasks[i].pc = "wait"
  /\ CanAcquire(semaphore)
  /\ NeedsNewSession(session, sessions)
  /\ tasks' = [tasks EXCEPT ![i].pc = "raised",
                            ![i].raisedIn = "_get_session",
                            ![i].acquires = @ + 1,
                            ![i].releases = @ + 1]
  /\ semaphore' = Release(Acquire(semaphore))
  /\ UNCHANGED <<mainpc, scen, num_requests, concurrency, results, session,
                 sessions, closeCalls, printed, reports, failed>>

\* LeaveBoundedRequest of a unit that leaves "async with" first and appends
\* afterwards
ReleasedThenAppended(u) ==
  LET released == [u EXCEPT !.releases = @ + 1]
  IN  [released EXCEPT !.appends = @ + 1,
                       !.heldAtAppend = released.acquires > released.releases,
                       !.pc = "done"]
\* the end of bounded_request for unit u whose operation has returned:
\* self.results.append(result) is the last statement inside "async with"
\* (line 171), leaving the block releases the slot
LeaveBoundedRequest(u) ==
  LET appended == [u EXCEPT !.appends = @ + 1,
                            !.heldAtAppend = u.acquires > u.releases]
  IN  [appended EXCEPT !.releases = @ + 1, !.pc = "done"]

\* the transport call of work unit i returns or raises after t ticks: the
\* operation returns its TestResult, the unit appends it and leaves
\* "async with" (no suspension point in between); were the operation to
\* raise, the exception would leave bounded_request through "async with"
FinishRequest(i, out, t) ==
  /\ mainpc # "done"
  /\ tasks[i].pc = "inflight"
  /\ LET ret == Invoke(tasks[i].endpoint, out, t)
     IN  IF ret.raises
           THEN /\ results' = results
                /\ tasks' = [tasks EXCEPT ![i].pc = "raised",
                                          ![i].raisedIn = "operation",
                                          ![i].releases = @ + 1]
           ELSE /\ results' = AppendResult(results, Collected(ret.value, scen, out))
                /\ tasks' = [tasks EXCEPT ![i] = LeaveBoundedRequest(tasks[i])]
  /\ semaphore' = Release(semaphore)
  /\ UNCHANGED <<mainpc, scen, num_requests, concurrency, session, sessions,
                 closeCalls, printed, reports, failed>>

\* Cancelled of units whose cancellation leaves the slot taken
CancelledHolding(ts) ==
  [i \in DOMAIN ts |->
     IF ts[i].pc \in {"inflight", "wait"}
       THEN [ts[i] EXCEPT !.pc = "cancelled"]
     ELSE ts[i]]
\* asyncio.run cancels the work units still pending when main is over; a
\* unit cancelled inside "async with" releases its slot
Cancelled(ts) ==
  [i \in DOMAIN ts |->
     IF ts[i].pc = "inflight"
       THEN [ts[i] EXCEPT !.pc = "cancelled", !.releases = @ + 1]
     ELSE IF ts[i].pc = "wait" THEN [ts[i] EXCEPT !.pc = "cancelled"]
     ELSE ts[i]]

\* main is over: asyncio.run tears the event loop down
LoopTeardown ==
  /\ mainpc' = "done"
  /\ tasks' = Cancelled(tasks)
  /\ semaphore' = semaphore + Cardinality(InFlight)

\* the finally block of main: close_session.  With a session, main suspends
\* in session.close() (the session is closed by then); without one,
\* close_session returns at once and main is over
Finally ==
  /\ sessions' = close_session(session, sessions)
  /\ session' = session
  /\ IF session # 0
       THEN /\ closeCalls' = closeCalls + 1
            /\ mainpc' = "closing"
            /\ UNCHANGED <<tasks, semaphore>>
       ELSE /\ closeCalls' = closeCalls
            /\ LoopTeardown

\* AllReturned of a wait that ends with the first unit to return
AnyReturned(ts) == \E i \in DOMAIN ts : ts[i].pc = "done"
\* gather returns when every work unit has returned (line 178)
AllReturned(ts) == \A i \in DOMAIN ts : ts[i].pc = "done"

\* every work unit has returned: gather returns, run_scenario calls
\* _print_results and returns to main; were _print_results to raise, the
\* exception would leave run_scenario and main's try block
GatherReturns(total_time) ==
  /\ mainpc = "gather"
  /\ AllReturned(tasks)
  /\ LET rep == print_results(scen, results, num_requests, total_time)
     IN  /\ printed' = rep
         /\ IF rep.kind = "report"
              THEN /\ reports' = reports + 1
                   /\ mainpc' = "idle"
                   /\ failed' = failed
                   /\ UNCHANGED <<semaphore, tasks, session, sessions, closeCalls>>
              ELSE /\ reports' = reports
                   /\ failed' = TRUE
                   /\ Finally
  /\ results' = ResultsAfterPrint(results)
  /\ UNCHANGED <<scen, num_requests, concurrency>>

\* a work unit has raised: gather (return_exceptions=False) raises in
\* run_scenario, the other work units keep running; the exception leaves
\* run_scenario and main's try block, and the finally block runs.  The
\* event loop runs callbacks in the order they were scheduled: a unit's
\* first step, or the wake-up of a unit by the release of a slot, is
\* scheduled before the callback that resumes main, so main resumes when no
\* unit is able to start
GatherRaises ==
  /\ mainpc = "gather"
  /\ \E i \in Units : tasks[i].pc = "raised"
  /\ ~\E i \in Units : Startable(i)
  /\ failed' = TRUE
  /\ Finally
  /\ UNCHANGED <<scen, num_requests, concurrency, results, printed, reports>>

\* the last scenario has returned: the closing banner of lines 259-262, then
\* the finally block
AllCompleted ==
  /\ mainpc = "idle"
  /\ scen = NumScenarios
  /\ printed' = [kind |-> "completed"]
  /\ Finally
  /\ UNCHANGED <<scen, num_requests, concurrency, results, reports, failed>>

\* session.close() returns and main is over
MainExit ==
  /\ mainpc = "closing"
  /\ LoopTeardown
  /\ UNCHANGED <<scen, num_requests, concurrency, results, session, sessions,
                 closeCalls, printed, reports, failed>>

\* the program's steps, with run_scenario's arguments drawn from Ns and Cs,
\* the transport's behaviour from Outs, the clock readings from Lats and
\* Els and random.random() from Ds
NextOver(Ns, Cs, Outs, Lats, Els, Ds) ==
  \/ \E n \in Ns, c \in Cs : RunScenario(n, c)
  \/ \E i \in Units, v \in Ds : StartRequest(i, v)
  \/ \E i \in Units : StartRequestRaises(i)
  \/ \E i \in Units, out \in Outs, t \in Lats : FinishRequest(i, out, t)
  \/ \E total_time \in Els : GatherReturns(total_time)
  \/ GatherRaises
  \/ AllCompleted
  \/ MainExit

\* short scenarios, every kind of transport outcome
Next ==
  NextOver(1..MaxRequests, 1..MaxConcurrency, TransportOutcomes, Latencies,
           ElapsedTimes, BandDraws)

Spec == Init /\ [][Next]_vars

\* longer scenarios, the transport either answers 200 or times out
NextLong ==
  NextOver(1..MaxRequestsLong, 1..MaxConcurrency, LongOutcomes, {1}, {1},
           BandDraws)

SpecLong == Init /\ [][NextLong]_vars

\* short scenarios, the transport either answers 200 or times out, every
\* tenth as draw
NextShort ==
  NextOver(1..MaxRequests, 1..MaxConcurrency, LongOutcomes, {1}, {1}, Draws)

SpecShort == Init /\ [][NextShort]_vars

\* short scenarios, the transport either answers 200 or times out, one draw
\* of each band
NextFair ==
  NextOver(1..MaxRequests, 1..MaxConcurrency, LongOutcomes, {1}, {1},
           BandDraws)

\* what the scheduling gives: the event loop runs a work unit that can enter
\* "async with", every transport call returns or raises
\* (ClientTimeout(total=30)), and main is resumed when gather is done
Fairness ==
  /\ WF_vars(\E i \in Units, v \in BandDraws : StartRequest(i, v))
  /\ WF_vars(\E i \in Units, out \in LongOutcomes : FinishRequest(i, out, 1))
  /\ WF_vars(GatherReturns(1))

SpecFair == Init /\ [][NextFair]_vars /\ Fairness

(* ------------------- the reporter on its own --------------------------- *)
\* the outcomes the operations can return, as collected by a scenario
ReportSamples ==
  {Collected(Invoke(e, out, t).value, 1, out) :
     e \in Endpoints, out \in LongOutcomes, t \in Latencies}
\* the collections _print_results can be handed: one outcome per request
ReportInputs == UNION {[1..k -> ReportSamples] : k \in 1..MaxSamples}

InitReport ==
  /\ mainpc = "report"
  /\ scen = 1
  /\ results \in ReportInputs
  /\ num_requests = Len(results)
  /\ concurrency = 1
  /\ semaphore = 1
  /\ tasks = <<>>
  /\ session = 0
  /\ sessions = <<>>
  /\ closeCalls = 0
  /\ printed = [kind |-> "header"]
  /\ reports = 0
  /\ failed = FALSE

\* _print_results(scenario_name, num_requests, total_time) is called on the
\* collection, a first and a second time
Report(total_time) ==
  /\ mainpc = "report"
  /\ reports < 2
  /\ printed' = print_results(scen, results, num_requests, total_time)
  /\ results' = ResultsAfterPrint(results)
  /\ reports' = reports + 1
  /\ UNCHANGED <<mainpc, scen, num_requests, concurrency, semaphore, tasks,
                 session, sessions, closeCalls, failed>>

NextReport == \E total_time \in ElapsedTimes : Report(total_time)

SpecReport == InitReport /\ [][NextReport]_vars

(* ======================================================================= *)
(* Properties                                                              *)
(* ======================================================================= *)
Collection == {results[j] : j \in 1..Len(results)}
\* _print_results has been called for the running scenario
HandedOver == printed.kind \in {"report", "traceback"}

\* C1: when run_scenario hands the collection to _print_results, the
\* collection holds exactly num_requests outcomes, one appended by each of
\* the num_requests work units, whatever the requests' outcomes were.
C1_ExactlyNumRequests ==
  HandedOver =>
    /\ Len(results) = num_requests
    /\ Len(tasks) = num_requests
    /\ \A i \in Units : tasks[i].appends = 1

\* a two-request scenario reported with one transport failure and one
\* request answered
C1_Witness ==
  /\ printed.kind = "report"
  /\ num_requests = 2
  /\ Len(results) = 2
  /\ \E r \in Collection : r.transport.raised
  /\ \E r \in Collection : ~r.transport.raised

\* C2: the number of operations dispatched and not yet completed never
\* exceeds concurrency.
C2_InFlightBounded == Cardinality(InFlight) <= concurrency

\* concurrency operations are in flight while another work unit waits
C2_Witness ==
  /\ Cardinality(InFlight) = concurrency
  /\ concurrency >= 1
  /\ \E i \in Units : tasks[i].pc = "wait"

\* C3: an operation never raises to its caller; a transport failure gives an
\* outcome with status_code 0 and success false, and it does not make the
\* scenario fail.
C3_OperationsNeverRaise ==
  /\ \A i \in Units : tasks[i].raisedIn # "operation"
  /\ \A r \in Collection : r.transport.raised => r.status_code = 0 /\ ~r.success
  /\ failed => \E i \in Units : tasks[i].raisedIn = "_get_session"

\* a scenario whose first outcome is a transport failure has gone on to
\* collect a second outcome and to print its report
C3_Witness ==
  /\ printed.kind = "report"
  /\ Len(results) = 2
  /\ results[1].transport.raised
  /\ results[1].status_code = 0
  /\ ~failed

\* C4: when main is over, whether every scenario completed or one raised,
\* the session has been closed exactly once and no session constructed
\* during the run is open.
C4_SessionReleasedOnce ==
  mainpc = "done" =>
    /\ closeCalls <= 1
    /\ Len(sessions) >= 1 => closeCalls = 1
    /\ \A s \in DOMAIN sessions : sessions[s] = "closed"

\* C5: a scenario starts only when the scenario before it has all its work
\* units completed and its report printed, and the scenarios start in order.
C5_ScenariosInSequence ==
  [][scen' # scen =>
       /\ scen' = scen + 1
       /\ scen >= 1 =>
            /\ \A i \in Units : tasks[i].pc = "done"
            /\ printed.kind = "report"
            /\ printed.scen = scen
            /\ reports = scen]_vars

\* a work unit of the second scenario is in flight, the first scenario's
\* report being the only one printed
C5_Witness ==
  /\ scen = 2
  /\ reports = 1
  /\ InFlight # {}

\* C6: the collection holds outcomes of the running scenario only, so the
\* collection reported for a scenario holds none of an earlier scenario.
C6_CollectionScoped ==
  /\ \A r \in Collection : r.scen = scen
  /\ HandedOver => \A r \in Collection : r.scen = printed.scen

\* the third scenario on the same runner is reported with its two outcomes
C6_Witness ==
  /\ printed.kind = "report"
  /\ printed.scen = 3
  /\ Len(results) = 2

\* the status an endpoint's operation counts as a success
ExpectedCode(e) == IF e = EP_CREATE THEN 201 ELSE 200

\* C7: an outcome is a success exactly when its status_code is the expected
\* code of its endpoint; an answered request is recorded with the status it
\* was answered with; status_code 0 stands for a transport failure only.
C7_SuccessIffExpectedCode ==
  \A r \in Collection :
    /\ r.success <=> r.status_code = ExpectedCode(r.endpoint)
    /\ ~r.transport.raised => r.status_code = r.transport.status
    /\ r.status_code = 0 <=> r.transport.raised

\* a creation answered 200 is collected as a failure beside one answered 201
C7_Witness ==
  /\ \E r \in Collection :
       r.endpoint = EP_CREATE /\ r.status_code = 200 /\ ~r.success
  /\ \E r \in Collection :
       r.endpoint = EP_CREATE /\ r.status_code = 201 /\ r.success

\* C8: in a report, successes plus failures is num_requests, and the success
\* rate lies between 0 and 100.
C8_CountsSumToNumRequests ==
  printed.kind = "report" =>
    /\ printed.successful + printed.failed = printed.num_requests
    /\ printed.num_requests = num_requests
    /\ printed.success_rate.den > 0
    /\ printed.success_rate.num >= 0
    /\ printed.success_rate.num <= 100 * printed.success_rate.den

\* a report of one success and one failure
C8_Witness ==
  /\ printed.kind = "report"
  /\ printed.successful = 1
  /\ printed.failed = 1

\* C9: with no successful outcome, _print_results raises nothing and reports
\* 0 for mean, median, p95, min and max; no endpoint's rate divides by zero.
C9_ZeroSuccesses ==
  (HandedOver /\ printed.successful = 0) =>
    /\ printed.kind = "report"
    /\ printed.avg = Zero
    /\ printed.p50 = Zero
    /\ printed.p95 = Zero
    /\ printed.min = Zero
    /\ printed.max = Zero
    /\ \A e \in DOMAIN printed.by_endpoint : printed.by_endpoint[e].rate # Raises

\* a report of two failures on two endpoints
C9_Witness ==
  /\ printed.kind = "report"
  /\ printed.successful = 0
  /\ printed.failed = 2
  /\ Cardinality(DOMAIN printed.by_endpoint) = 2

\* C10: with one successful outcome the median is 0 and mean, min and max
\* are its response time; the median is 0 below 2 successes and p95 is 0
\* below 20.
C10_OneSuccess ==
  HandedOver =>
    /\ printed.successful = 1 =>
         \E r \in Collection :
           /\ r.success
           /\ printed.kind = "report"
           /\ printed.p50 = Zero
           /\ printed.avg = Frac(r.response_time_ms, 1)
           /\ printed.min = Frac(r.response_time_ms, 1)
           /\ printed.max = Frac(r.response_time_ms, 1)
    /\ printed.successful < 2 => printed.p50 = Zero
    /\ printed.successful < 20 => printed.p95 = Zero

\* a report of one success that took 2 ticks beside a failure that took 1
C10_Witness ==
  /\ printed.kind = "report"
  /\ printed.successful = 1
  /\ \E r \in Collection : r.success /\ r.response_time_ms = 2
  /\ \E r \in Collection : ~r.success /\ r.response_time_ms = 1

C12_ReleasedBeforeAppend ==
  \A i \in Units : tasks[i].appends >= 1 => ~tasks[i].heldAtAppend

\* C12, amended: the steps of a work unit are acquire, invoke, append,
\* release: an operation is invoked only by a unit that has acquired its
\* slot, a unit in flight holds its slot and has appended nothing, and a
\* unit that has appended did so while it held the slot and has released the
\* slot since.
C12_AppendedBeforeRelease ==
  \A i \in Units :
    /\ tasks[i].endpoint # "" => tasks[i].acquires = 1
    /\ tasks[i].pc = "inflight" =>
         /\ tasks[i].endpoint # ""
         /\ tasks[i].releases = 0
         /\ tasks[i].appends = 0
    /\ tasks[i].appends >= 1 =>
         /\ tasks[i].heldAtAppend
         /\ tasks[i].endpoint # ""
         /\ tasks[i].releases = 1

\* one unit has appended and released while another is in flight
C12_Witness ==
  /\ \E i \in Units : tasks[i].appends = 1 /\ tasks[i].releases = 1
  /\ InFlight # {}

C14_NoSlotLeaked ==
  /\ \A i \in Units :
       /\ tasks[i].acquires <= 1
       /\ tasks[i].releases <= tasks[i].acquires
       /\ tasks[i].pc = "inflight" =>
            tasks[i].acquires = 1 /\ tasks[i].releases = 0
       /\ tasks[i].pc \in {"done", "raised", "cancelled"} =>
            tasks[i].releases = tasks[i].acquires
  /\ semaphore = concurrency - Cardinality(InFlight)
  /\ (\A i \in Units : tasks[i].pc \in {"done", "raised", "cancelled"}) =>
       semaphore = concurrency

\* both slots were in use and are free again: one unit's operation
\* succeeded, the other's returned a failure outcome
C14_Witness ==
  /\ concurrency = 2
  /\ Len(tasks) = 2
  /\ \A i \in Units : tasks[i].pc = "done" /\ tasks[i].releases = 1
  /\ semaphore = 2
  /\ \E j \in 1..Len(results) : results[j].success
  /\ \E j \in 1..Len(results) : results[j].transport.raised

\* C15: the runner does not serialize the work units: whenever a slot is
\* free (fewer than concurrency units are in flight), every unit that still
\* waits at "async with semaphore" can enter at once, whatever the other
\* units are doing.
C15_NotSerialized ==
  \A i \in Units :
    (mainpc = "gather" /\ tasks[i].pc = "wait"
       /\ Cardinality(InFlight) < concurrency)
      => ENABLED (\E v \in BandDraws : StartRequest(i, v))

\* num_requests >= concurrency and exactly concurrency operations are in
\* flight at the same time, more than one
C15_Witness ==
  /\ mainpc = "gather"
  /\ concurrency = MaxConcurrency
  /\ num_requests >= concurrency
  /\ Cardinality(InFlight) = concurrency
  /\ \A i \in InFlight : tasks[i].acquires = 1 /\ tasks[i].releases = 0

\* C16: as long as no session has been closed at most one session has been
\* created, and every work unit that got a session, in whatever scenario and
\* whatever the order in which the units called _get_session, got that one;
\* when main is over and no scenario raised, exactly one session has been
\* created for the whole sequence of scenarios.
C16_SingleSession ==
  /\ closeCalls = 0 =>
       /\ Len(sessions) <= 1
       /\ \A i \in Units :
            /\ tasks[i].sess \in {0, session}
            /\ tasks[i].pc \in {"inflight", "done"} => tasks[i].sess = 1
  /\ (mainpc = "done" /\ ~failed) =>
       /\ scen = NumScenarios
       /\ Len(sessions) = 1
       /\ \A i \in Units : tasks[i].sess = 1

\* all scenarios have run, none raised, with two units in the last one, and
\* one session was created
C16_Witness ==
  /\ mainpc = "done"
  /\ ~failed
  /\ scen = NumScenarios
  /\ Len(tasks) = 2
  /\ Len(sessions) = 1

\* the two middle values of the sorted response times rt, Len(rt) even
LowerMiddle(rt) == SortSeq(rt, LAMBDA a, b : a < b)[Len(rt) \div 2]
UpperMiddle(rt) == SortSeq(rt, LAMBDA a, b : a < b)[Len(rt) \div 2 + 1]
\* a report of the collection with an even number of successes, 2 or more
EvenSuccessesReported ==
  /\ mainpc = "report"
  /\ printed.kind = "report"
  /\ printed.successful >= 2
  /\ printed.successful % 2 = 0

\* C17 as stated: with an even number (at least 2) of successful outcomes
\* the reported median is the lower of the two middle values of the sorted
\* successful response times.
C17_MedianIsLowerMiddle ==
  EvenSuccessesReported =>
    printed.p50 = Frac(LowerMiddle(response_times(results)), 1)

\* C17, amended: with an even number (at least 2) of successful outcomes the
\* reported median is the mean of the two middle values of the sorted
\* successful response times.
C17_MedianIsMeanOfMiddles ==
  EvenSuccessesReported =>
    printed.p50 = Frac(LowerMiddle(response_times(results))
                         + UpperMiddle(response_times(results)), 2)

\* four successes have been reported whose two middle values differ
C17_Witness ==
  /\ EvenSuccessesReported
  /\ printed.successful = 4
  /\ LowerMiddle(response_times(results)) = 1
  /\ UpperMiddle(response_times(results)) = 2
  /\ printed.p50 = [num |-> 3, den |-> 2]

\* the operation the claim assigns to the draw v (tenths): List below 0.5,
\* GetByID from 0.5 to below 0.8, Create from 0.8
ClaimedOperation(v) ==
  IF v \in 0..4 THEN EP_LIST
  ELSE IF v \in 5..7 THEN EP_GET
  ELSE EP_CREATE

\* C18: after every step, a work unit that is in flight or has returned has
\* made one draw and invoked the one operation the claim assigns to that
\* draw, and has appended at most one outcome; the step in which a unit's
\* operation returns appends exactly one outcome, whose endpoint label is
\* that of the operation assigned to the unit's draw.
C18_OperationFromDraw ==
  [][/\ \A i \in 1..Len(tasks') :
          tasks'[i].pc \in {"inflight", "done"} =>
            /\ tasks'[i].draw \in Draws
            /\ tasks'[i].endpoint = ClaimedOperation(tasks'[i].draw)
            /\ tasks'[i].appends = (IF tasks'[i].pc = "done" THEN 1 ELSE 0)
     /\ \A i \in Units :
          (tasks[i].pc = "inflight" /\ tasks'[i].pc = "done") =>
            /\ Len(results') = Len(results) + 1
            /\ SubSeq(results', 1, Len(results)) = results
            /\ results'[Len(results')].endpoint
                 = ClaimedOperation(tasks[i].draw)]_vars

\* two units drew the boundary values 0.5 and 0.8; their outcomes are those
\* of GetByID and of Create
C18_Witness ==
  /\ Len(tasks) = 2
  /\ \A i \in Units : tasks[i].pc = "done"
  /\ \E i \in Units : tasks[i].draw = 5 /\ tasks[i].endpoint = EP_GET
  /\ \E i \in Units : tasks[i].draw = 8 /\ tasks[i].endpoint = EP_CREATE
  /\ \E j \in 1..Len(results) : results[j].endpoint = EP_GET
  /\ \E j \in 1..Len(results) : results[j].endpoint = EP_CREATE

\* the work units waiting for a slot, and those that are over without an
\* outcome (ended by an exception, or cancelled)
Waiting == {i \in Units : tasks[i].pc = "wait"}
EndedWithoutOutcome == {i \in Units : tasks[i].pc \in {"raised", "cancelled"}}

\* C19 as stated, the part that speaks of single states: during a scenario
\* the collection never holds more than num_requests outcomes and
\* (units waiting) + (units holding a slot) + (outcomes collected)
\* = num_requests.
C19_WaitingHoldingCollected ==
  mainpc = "gather" =>
    /\ Len(results) <= num_requests
    /\ Cardinality(Waiting) + Cardinality(InFlight) + Len(results)
         = num_requests

\* C19, amended: after every step inside a scenario the collection holds at
\* most num_requests outcomes and (units waiting) + (units holding a slot)
\* + (outcomes collected) + (units ended by an exception or cancelled)
\* = num_requests; a step inside a scenario leaves the outcomes collected so
\* far in place and unchanged, adding at most one at the end.
C19_AppendOnly ==
  [][/\ Len(results') <= num_requests'
     /\ Cardinality({i \in 1..Len(tasks') : tasks'[i].pc = "wait"})
          + Cardinality({i \in 1..Len(tasks') : tasks'[i].pc = "inflight"})
          + Cardinality({i \in 1..Len(tasks') :
                           tasks'[i].pc \in {"raised", "cancelled"}})
          + Len(results') = num_requests'
     /\ scen' = scen =>
          /\ Len(results') \in {Len(results), Len(results) + 1}
          /\ SubSeq(results', 1, Len(results)) = results]_vars

\* three requests through two slots: one outcome collected, one unit holding
\* a slot, one waiting
C19_Witness ==
  /\ mainpc = "gather"
  /\ num_requests = 3
  /\ Len(results) = 1
  /\ Cardinality(InFlight) = 1
  /\ Cardinality(Waiting) = 1
  /\ EndedWithoutOutcome = {}

====
